---------------------------- MODULE Spec2Model ----------------------------
(***************************************************************************)
(* A model of tools/osm_to_ratms.py: the OSM -> RATMS road network         *)
(* converter (main, fetch_osm_data, parse_osm_data, build_road_network).   *)
(*                                                                         *)
(* Representation of the program's values                                  *)
(*   - A latitude or longitude is an index into a fixed list of float      *)
(*     values (LatDeg / LonDeg below); the order of the indices is the     *)
(*     order of the floats, so comparisons and equality are preserved.     *)
(*   - A distance is an integer number of micrometres (the float value     *)
(*     floored), a rounded length an integer number of decimetres.         *)
(*   - A speed in m/s is an integer number of 1/18 m/s (km/h / 3.6 =       *)
(*     5*km/h / 18), a rounded speed an integer number of 0.1 m/s.         *)
(*   - A probability is an integer number of millionths.                   *)
(*   - A tag value that the program parses (maxspeed, lanes) is a          *)
(*     sequence of one-character strings; other tag values are strings.    *)
(*   - A Python list is a sequence; list position p is index p + 1.        *)
(***************************************************************************)
EXTENDS Integers, Sequences, FiniteSets, TLC

(***************************************************************************)
(* Bounds of the model.                                                    *)
(***************************************************************************)
\* Total number of node references over all the ways of one response.
MaxNodeRefs == 5

\* The same, for the responses whose nodes lie on the edge of a filter.
MaxFilterRefs == 3

\* Number of consecutive pairs of the way that runs to and fro at a junction.
MaxJunctionPairs == 6

\* The node ids a way may reference.
NodeIds == {1, 2, 3}

(***************************************************************************)
(* Generic helpers.                                                        *)
(***************************************************************************)
Max(a, b) == IF a >= b THEN a ELSE b

Abs(a) == IF a >= 0 THEN a ELSE 0 - a

\* Nearest integer to n / d (d > 0), ties to the even neighbour: what
\* Python's round() does on a value that is exactly representable.
RoundHalfEven(n, d) ==
    LET q == n \div d
        r == n % d
    IN  IF 2 * r < d THEN q
        ELSE IF 2 * r > d THEN q + 1
        ELSE IF q % 2 = 0 THEN q ELSE q + 1

(***************************************************************************)
(* Module tables (lines 25-58).                                            *)
(***************************************************************************)
ROAD_TYPES ==
    [ motorway |-> 120, motorway_link |-> 80, trunk |-> 100, trunk_link |-> 60,
      primary |-> 50, primary_link |-> 40, secondary |-> 50,
      secondary_link |-> 40, tertiary |-> 40, tertiary_link |-> 30,
      residential |-> 30, living_street |-> 20, unclassified |-> 30,
      service |-> 20 ]

DEFAULT_LANES ==
    [ motorway |-> 3, motorway_link |-> 1, trunk |-> 2, trunk_link |-> 1,
      primary |-> 2, primary_link |-> 1, secondary |-> 2,
      secondary_link |-> 1, tertiary |-> 1, tertiary_link |-> 1,
      residential |-> 1, living_street |-> 1, unclassified |-> 1,
      service |-> 1 ]

\* dict.get(key, default)
DictGet(d, key, default) == IF key \in DOMAIN d THEN d[key] ELSE default

(***************************************************************************)
(* Geometry.  The coordinates of the model are the floats                  *)
(*   LatDeg = [0.0, 0.001]                        (index 0, 1)             *)
(*   LonDeg = [0.0, 4.46e-05, 4.496608029593652e-05, 0.001]  (index 0..3)  *)
(* and HaversineTable holds floor(10^6 * haversine_distance(p, q)) for     *)
(* every two of the eight points, as the function of lines 61-72 returns   *)
(* it in IEEE doubles.  Point (lat, lon) is row / column 4*lat + lon + 1.  *)
(* From (0,0): lon 1 is 4.959293 m away (below the 5 m threshold, 5.0      *)
(* after rounding to one decimal), lon 2 is exactly 5.0 m away, lon 3 and  *)
(* lat 1 are 111.19 m away.                                                *)
(***************************************************************************)
Lats == 0..1
Lons == 0..3

HaversineTable ==
 << << 0, 4959293, 5000000, 111194926, 111194926, 111305463, 111307285, 157253373 >>,
    << 4959293, 0, 40706, 106235632, 111305463, 111194926, 111194934, 153786609 >>,
    << 5000000, 40706, 0, 106194926, 111307285, 111194934, 111194926, 153758492 >>,
    << 111194926, 106235632, 106194926, 0, 157253373, 153786609, 153758492, 111194926 >>,
    << 111194926, 111305463, 111307285, 157253373, 0, 4959293, 4999999, 111194926 >>,
    << 111305463, 111194926, 111194934, 153786609, 4959293, 0, 40706, 106235632 >>,
    << 111307285, 111194934, 111194926, 153758492, 4999999, 40706, 0, 106194926 >>,
    << 157253373, 153786609, 153758492, 111194926, 111194926, 106235632, 106194926, 0 >> >>

\* haversine_distance(lat1, lon1, lat2, lon2), in micrometres.
haversine_distance(lat1, lon1, lat2, lon2) ==
    HaversineTable[4 * lat1 + lon1 + 1][4 * lat2 + lon2 + 1]

\* The literal 5 of "if length < 5", in micrometres.
MinLengthMicro == 5000000

\* round(length, 1), in decimetres.
RoundLength(length) == RoundHalfEven(length, 100000)

\* max_speed_kmh / 3.6, in 1/18 m/s.
KmhToMs(max_speed_kmh) == 5 * max_speed_kmh

\* round(way['maxSpeed'], 1), in 0.1 m/s (10 * v / 18 is never a tie).
RoundSpeed(maxSpeed) == (10 * maxSpeed + 9) \div 18

\* round(1.0 / len(outgoing), 6), in millionths.
OneMillion == 1000000

Prob(n) == RoundHalfEven(OneMillion, n)

(***************************************************************************)
(* Strings that the program parses, as sequences of characters.            *)
(***************************************************************************)
Digits == <<"0", "1", "2", "3", "4", "5", "6", "7", "8", "9">>

IsDigit(c) == \E d \in 1..10 : Digits[d] = c

DigitValue(c) == (CHOOSE d \in 1..10 : Digits[d] = c) - 1

IsSpace(c) == c = " "

\* str.strip() on the characters of the model (the only whitespace is " ").
RECURSIVE LStrip(_)
LStrip(s) == IF s # <<>> /\ IsSpace(Head(s)) THEN LStrip(Tail(s)) ELSE s

RECURSIVE RStrip(_)
RStrip(s) ==
    IF s # <<>> /\ IsSpace(s[Len(s)]) THEN RStrip(SubSeq(s, 1, Len(s) - 1)) ELSE s

Strip(s) == RStrip(LStrip(s))

\* The value of a non-empty sequence of decimal digits.
RECURSIVE DecimalValue(_)
DecimalValue(s) ==
    IF s = <<>> THEN 0
    ELSE 10 * DecimalValue(SubSeq(s, 1, Len(s) - 1)) + DigitValue(s[Len(s)])

\* int(s) of Python for a str: surrounding whitespace is stripped, one
\* optional sign, then one or more decimal digits; anything else raises
\* ValueError (ok = FALSE).  The characters of the model include no "_".
PyInt(s) ==
    LET t      == Strip(s)
        signed == t # <<>> /\ Head(t) \in {"+", "-"}
        body   == IF signed THEN Tail(t) ELSE t
        ok     == body # <<>> /\ \A k \in 1..Len(body) : IsDigit(body[k])
    IN  [ ok  |-> ok,
          val |-> IF ~ok THEN 0
                  ELSE IF signed /\ Head(t) = "-" THEN 0 - DecimalValue(body)
                  ELSE DecimalValue(body) ]

\* s.replace(old, ''): every non-overlapping occurrence of old, from the
\* left, is removed.
RECURSIVE Remove(_, _)
Remove(s, old) ==
    IF Len(s) < Len(old) THEN s
    ELSE IF SubSeq(s, 1, Len(old)) = old
         THEN Remove(SubSeq(s, Len(old) + 1, Len(s)), old)
         ELSE <<Head(s)>> \o Remove(Tail(s), old)

KmhSuffix == <<" ", "k", "m", "/", "h">>
MphSuffix == <<" ", "m", "p", "h">>

(***************************************************************************)
(* Tags.  A tag is present with a value, or absent ('key' not in tags).    *)
(***************************************************************************)
Tag(v) == [present |-> TRUE, value |-> v]

NoTag == [present |-> FALSE, value |-> <<>>]

NoStrTag == [present |-> FALSE, value |-> ""]

\* tags.get(key, default)
TagGet(tag, default) == IF tag.present THEN tag.value ELSE default

(***************************************************************************)
(* parse_osm_data, the part that classifies one way (lines 111-142).       *)
(***************************************************************************)
\* lines 112: highway_type
HighwayType(tags) == TagGet(tags.highway, "unclassified")

\* the maxspeed tag is never read
MaxSpeedKmhIgnoresTag(tags) == DictGet(ROAD_TYPES, HighwayType(tags), 30)

\* lines 115-120: max_speed_kmh
MaxSpeedKmh(tags) ==
    LET default == DictGet(ROAD_TYPES, HighwayType(tags), 30)
        parsed  == PyInt(Remove(Remove(tags.maxspeed.value, KmhSuffix), MphSuffix))
    IN  IF tags.maxspeed.present /\ parsed.ok THEN parsed.val ELSE default

\* lines 124-129: lanes
TagLanes(tags) ==
    LET default == DictGet(DEFAULT_LANES, HighwayType(tags), 1)
        parsed  == PyInt(tags.lanes.value)
    IN  IF tags.lanes.present /\ parsed.ok THEN parsed.val ELSE default

\* every value other than "no" counts as one-way
IsOnewayNotNo(tags) == TagGet(tags.oneway, "no") # "no"

\* line 132: oneway
IsOneway(tags) == TagGet(tags.oneway, "no") \in {"yes", "1", "true"}

\* lanes // 2 without the max(1, ...)
SplitLanesNoFloor(lanes, oneway) == IF ~oneway THEN lanes \div 2 ELSE lanes

\* line 140: the lane count stored in the way
SplitLanes(lanes, oneway) == IF ~oneway THEN Max(1, lanes \div 2) ELSE lanes

\* lines 134-142: the way appended to ways
ParseWay(element) ==
    LET tags == element.tags
    IN  [ id       |-> element.id,
          nodes    |-> element.nodes,
          name     |-> TagGet(tags.name, ""),
          highway  |-> HighwayType(tags),
          maxSpeed |-> KmhToMs(MaxSpeedKmh(tags)),
          lanes    |-> SplitLanes(TagLanes(tags), IsOneway(tags)),
          oneway   |-> IsOneway(tags) ]

\* lines 101-109: the nodes dict (a later element with the same id wins)
RECURSIVE ParseNodes(_, _)
ParseNodes(elements, nodes) ==
    IF elements = <<>> THEN nodes
    ELSE LET element == Head(elements)
         IN  ParseNodes(Tail(elements),
                 IF element.type = "node"
                 THEN [n \in DOMAIN nodes \cup {element.id} |->
                          IF n = element.id
                          THEN [lat |-> element.lat, lon |-> element.lon]
                          ELSE nodes[n]]
                 ELSE nodes)

\* lines 102, 110-142: the ways list, in element order
RECURSIVE ParseWays(_)
ParseWays(elements) ==
    IF elements = <<>> THEN <<>>
    ELSE IF Head(elements).type = "way"
         THEN <<ParseWay(Head(elements))>> \o ParseWays(Tail(elements))
         ELSE ParseWays(Tail(elements))

EmptyDict == [n \in {} |-> 0]

(***************************************************************************)
(* The inputs of a run: the --bbox argument and the Overpass response.     *)
(***************************************************************************)
Pt(lat, lon) == [lat |-> lat, lon |-> lon]

Points == {Pt(lat, lon) : lat \in Lats, lon \in Lons}

\* minLon, minLat, maxLon, maxLat: the box that holds every point, with the
\* outermost points on its bounds.
FullBBox == <<0, 0, 3, 1>>

\* The four boxes that cut one side of FullBBox by one step.
CutBBoxes == {<<1, 0, 3, 1>>, <<0, 1, 3, 1>>, <<0, 0, 2, 1>>, <<0, 0, 3, 0>>}

\* Node 1 and node 2 are 111.19 m apart.
BaseNodes == [n \in {1, 2} |-> IF n = 1 THEN Pt(0, 0) ELSE Pt(1, 0)]

WithNode3(p) == [n \in {1, 2, 3} |-> IF n = 3 THEN p ELSE BaseNodes[n]]

\* Node 2 is 4.96 m and node 3 is 5.0 m from node 1, 0.04 m from node 2.
ClusterNodes ==
    [n \in {1, 2, 3} |-> IF n = 1 THEN Pt(0, 0) ELSE IF n = 2 THEN Pt(0, 1) ELSE Pt(0, 2)]

\* Node 3 is missing, or far from nodes 1 and 2; every node is in the box.
GraphEnvironments ==
    {[nodes |-> BaseNodes, bbox |-> FullBBox],
     [nodes |-> WithNode3(Pt(1, 3)), bbox |-> FullBBox]}

\* The places of node 3 that a filter is sensitive to: on node 1, exactly
\* 5.0 m from node 1, and 4.999999 m from node 2.
Node3Points == {Pt(0, 0), Pt(0, 2), Pt(1, 2)}

\* Node 3 is at one of Node3Points, or the three nodes are within 5 m of each
\* other, or the box is cut and leaves some of nodes 1, 2, 3 outside.
FilterEnvironments ==
    {[nodes |-> ClusterNodes, bbox |-> FullBBox]}
      \cup {[nodes |-> WithNode3(p), bbox |-> FullBBox] : p \in Node3Points}
      \cup {[nodes |-> WithNode3(Pt(1, 3)), bbox |-> b] : b \in CutBBoxes}

NoTags ==
    [highway |-> NoStrTag, name |-> NoStrTag, maxspeed |-> NoTag,
     lanes |-> NoTag, oneway |-> NoStrTag]

\* The tags of the ways whose geometry varies.
GeoTags ==
    {[NoTags EXCEPT !.highway = Tag("residential"), !.oneway = o] :
        o \in {NoStrTag, Tag("yes")}}

\* The tag values of the ways whose tags vary.
HighwayValues == {NoStrTag, Tag("motorway"), Tag("residential"), Tag("footway")}

MaxspeedValues ==
    {NoTag, Tag(<<"5", "0">>), Tag(<<"5", "0", " ", "k", "m", "/", "h">>),
     Tag(<<"3", "0", " ", "m", "p", "h">>), Tag(<<"5", "0", "m", "p", "h">>),
     Tag(<<"n", "o", "n", "e">>), Tag(<<"0">>), Tag(<<"-", "1", "0">>)}

LanesValues ==
    {NoTag, Tag(<<"2">>), Tag(<<"3">>), Tag(<<" ", "4">>), Tag(<<"0">>),
     Tag(<<"-", "3">>), Tag(<<"t", "w", "o">>), Tag(<<"2", ".", "5">>)}

OnewayValues ==
    {NoStrTag, Tag("yes"), Tag("1"), Tag("true"), Tag("no"), Tag("-1"),
     Tag("Yes"), Tag("TRUE")}

RichTags ==
    {[highway |-> h, name |-> Tag("Main St"), maxspeed |-> m, lanes |-> l,
      oneway |-> o] :
        h \in HighwayValues, m \in MaxspeedValues, l \in LanesValues,
        o \in OnewayValues}

\* The shapes of a list of ways: the numbers of nodes of its ways, each at
\* least 2, at most budget in total.
RECURSIVE Shapes(_)
Shapes(budget) ==
    {<<>>} \cup
    UNION {{<<l>> \o rest : rest \in Shapes(budget - l)} : l \in 2..budget}

RECURSIVE SumUpTo(_, _)
SumUpTo(shape, k) == IF k = 0 THEN 0 ELSE SumUpTo(shape, k - 1) + shape[k]

\* The list of ways of a shape, its node references taken in order from refs
\* and the tags of its k-th way from tags.
WayList(shape, refs, tags) ==
    [k \in 1..Len(shape) |->
        [nodes |-> [j \in 1..shape[k] |-> refs[SumUpTo(shape, k - 1) + j]],
         tags  |-> tags[k]]]

\* The node elements of a response, by ascending id.
NodeElements(ns) ==
    LET RECURSIVE Upto(_)
        Upto(n) ==
            IF n = 0 THEN <<>>
            ELSE Upto(n - 1) \o
                 (IF n \in DOMAIN ns
                  THEN <<[type |-> "node", id |-> n, lat |-> ns[n].lat,
                          lon |-> ns[n].lon]>>
                  ELSE <<>>)
        top == IF DOMAIN ns = {} THEN 0
               ELSE CHOOSE n \in DOMAIN ns : \A m \in DOMAIN ns : m <= n
    IN  Upto(top)

\* The way elements of a response, after the node elements.
WayElements(list) ==
    [k \in 1..Len(list) |->
        [type |-> "way", id |-> 100 + k, nodes |-> list[k].nodes,
         tags |-> list[k].tags]]

Response(ns, list) == [elements |-> NodeElements(ns) \o WayElements(list)]

\* The way of the responses whose tags vary.
TaggedWays == {<<[nodes |-> <<1, 2, 3>>, tags |-> t]>> : t \in RichTags}

\* Node 4 lies at the coordinates of node 2, under another id.
TwinNodes == [n \in {1, 2, 3, 4} |-> IF n = 4 THEN BaseNodes[2] ELSE WithNode3(Pt(1, 3))[n]]

\* A way into node 2 and a way out of (or through) its twin, node 4.
TwinWays ==
    {<<[nodes |-> a, tags |-> t1], [nodes |-> b, tags |-> t2]>> :
        a \in {<<1, 2>>, <<1, 2, 3>>}, b \in {<<4, 3>>, <<3, 4, 1>>},
        t1 \in GeoTags, t2 \in GeoTags}

\* k + 1 node references 2, 3, 2, 3, ...
Zigzag(k) == [j \in 1..(k + 1) |-> IF j % 2 = 1 THEN 2 ELSE 3]

\* A one-way way into node 2 and a bidirectional way that runs k times
\* between node 2 and node 3: k roads leave node 2, all towards node 3.
JunctionWays ==
    {<<[nodes |-> <<1, 2>>,
        tags  |-> [NoTags EXCEPT !.highway = Tag("residential"), !.oneway = Tag("yes")]],
       [nodes |-> Zigzag(k),
        tags  |-> [NoTags EXCEPT !.highway = Tag("residential")]]>> :
        k \in 1..MaxJunctionPairs}

\* The values of --bbox after float(): four numbers, or too few or too many.
BBoxArgs == {FullBBox} \cup CutBBoxes \cup {<<0, 0, 3>>, <<0, 0, 3, 1, 1>>}

(***************************************************************************)
(* The state of a run.                                                     *)
(***************************************************************************)
VARIABLES
    pc,                      \* where main is
    args_bbox,               \* [float(x) for x in args.bbox.split(',')]
    bbox,                    \* main's bbox
    fetches,                 \* number of requests.post calls made
    osm_data,                \* <<>> or <<the response>>
    nodes,                   \* parse_osm_data's nodes dict
    ways,                    \* parse_osm_data's ways list
    roads,                   \* build_road_network's roads list
    road_id,                 \* build_road_network's road_id
    node_pair_to_road,       \* dict (start_node, end_node) -> road_id
    node_to_incoming_roads,  \* defaultdict node_id -> list of road ids
    node_to_outgoing_roads,  \* defaultdict node_id -> list of road ids
    incoming_keys,           \* the keys of node_to_incoming_roads, in insertion order
    way_idx,                 \* position of "for way in ways" (from 1)
    pair_idx,                \* i of "for i in range(len(way_nodes) - 1)" (from 1)
    node_idx,                \* position of "for node_id in node_to_incoming_roads"
    output,                  \* <<>> or <<the text written to args.output>>
    id_checks,               \* number of comparisons of the roads' ids with their
                             \* list positions that main has made (history)
    road_src                 \* per road: the way position, pair position and node
                             \* ids (start_node_id, end_node_id) it was made from

vars ==
    <<pc, args_bbox, bbox, fetches, osm_data, nodes, ways, roads, road_id,
      node_pair_to_road, node_to_incoming_roads, node_to_outgoing_roads,
      incoming_keys, way_idx, pair_idx, node_idx, output, id_checks, road_src>>

buildVars ==
    <<roads, road_id, node_pair_to_road, node_to_incoming_roads,
      node_to_outgoing_roads, incoming_keys, way_idx, pair_idx, node_idx,
      road_src>>

Init ==
    /\ pc = "main"
    /\ args_bbox \in BBoxArgs
    /\ bbox = <<>>
    /\ fetches = 0
    /\ osm_data = <<>>
    /\ nodes = EmptyDict
    /\ ways = <<>>
    /\ roads = <<>>
    /\ road_id = 0
    /\ node_pair_to_road = EmptyDict
    /\ node_to_incoming_roads = EmptyDict
    /\ node_to_outgoing_roads = EmptyDict
    /\ incoming_keys = <<>>
    /\ way_idx = 1
    /\ pair_idx = 1
    /\ node_idx = 1
    /\ output = <<>>
    /\ id_checks = 0
    /\ road_src = <<>>

(***************************************************************************)
(* main, lines 268-272: the bounding box argument.                         *)
(***************************************************************************)
\* More than four values are let through.
ValidBBoxLenAtLeast(b) == Len(b) >= 4

ValidBBoxLen(b) == Len(b) = 4

ParseArgs ==
    /\ pc = "main"
    /\ bbox' = args_bbox
    /\ pc' = IF ~ValidBBoxLen(args_bbox) THEN "exit_1" ELSE "fetch"
    /\ UNCHANGED <<id_checks, args_bbox, fetches, osm_data, nodes, ways, output>>
    /\ UNCHANGED buildVars

(***************************************************************************)
(* main line 275 and fetch_osm_data, lines 75-96: one POST; a transport    *)
(* error or raise_for_status() raises, and nothing in main catches it.     *)
(***************************************************************************)
FetchOk ==
    /\ pc = "fetch"
    /\ fetches' = fetches + 1
    /\ \/ \E env \in GraphEnvironments :
             /\ env.bbox = bbox
             /\ \E shape \in Shapes(MaxNodeRefs) :
                    \E refs \in [1..SumUpTo(shape, Len(shape)) -> NodeIds],
                       tags \in [1..Len(shape) -> GeoTags] :
                        osm_data' = <<Response(env.nodes, WayList(shape, refs, tags))>>
       \/ \E env \in FilterEnvironments :
             /\ env.bbox = bbox
             /\ \E shape \in Shapes(MaxFilterRefs) :
                    \E refs \in [1..SumUpTo(shape, Len(shape)) -> NodeIds],
                       tags \in [1..Len(shape) -> GeoTags] :
                        osm_data' = <<Response(env.nodes, WayList(shape, refs, tags))>>
       \/ /\ bbox = FullBBox
          /\ \E list \in TaggedWays :
                osm_data' = <<Response(WithNode3(Pt(1, 3)), list)>>
       \/ /\ bbox = FullBBox
          /\ \E list \in TwinWays \cup JunctionWays :
                osm_data' = <<Response(TwinNodes, list)>>
    /\ pc' = "parse"
    /\ UNCHANGED <<id_checks, args_bbox, bbox, nodes, ways, output>>
    /\ UNCHANGED buildVars

\* The request is made again after an error.
AfterFetchErrorRetry == "fetch"

\* lines 93-94 and 275: the exception of requests.post or raise_for_status()
\* leaves fetch_osm_data and main, which has no handler.
AfterFetchError == "raised"

FetchFail ==
    /\ pc = "fetch"
    /\ fetches' = fetches + 1
    /\ pc' = AfterFetchError
    /\ UNCHANGED <<id_checks, args_bbox, bbox, osm_data, nodes, ways, output>>
    /\ UNCHANGED buildVars

(***************************************************************************)
(* main line 278 and parse_osm_data, lines 99-144; then the entry of       *)
(* build_road_network, lines 149-161.                                      *)
(***************************************************************************)
\* range(len(way_nodes) - 1) is empty for a way of fewer than two nodes.
NumPairs(way) == Max(0, Len(way.nodes) - 1)

\* The first way at or after position w that has a pair to visit.
RECURSIVE FirstWay(_, _)
FirstWay(ws, w) ==
    IF w > Len(ws) \/ NumPairs(ws[w]) > 0 THEN w ELSE FirstWay(ws, w + 1)

ParseOsmData ==
    /\ pc = "parse"
    /\ LET elements == osm_data[1].elements
       IN  /\ nodes' = ParseNodes(elements, EmptyDict)
           /\ ways' = ParseWays(elements)
    /\ way_idx' = FirstWay(ways', 1)
    /\ pair_idx' = 1
    /\ pc' = IF way_idx' > Len(ways') THEN "write" ELSE "decompose"
    /\ UNCHANGED <<id_checks, args_bbox, bbox, fetches, osm_data, output, roads, road_id,
                   node_pair_to_road, node_to_incoming_roads,
                   node_to_outgoing_roads, incoming_keys, node_idx, road_src>>

(***************************************************************************)
(* build_road_network, lines 161-226: one consecutive node pair of a way.  *)
(***************************************************************************)
\* The bounds are exclusive.
InBBoxStrict(p, b) ==
    /\ b[2] < p.lat /\ p.lat < b[4]
    /\ b[1] < p.lon /\ p.lon < b[3]

\* lines 159, 176, 178: min_lat <= p.lat <= max_lat and min_lon <= p.lon <= max_lon
InBBox(p, b) ==
    LET min_lon == b[1]
        min_lat == b[2]
        max_lon == b[3]
        max_lat == b[4]
    IN  /\ min_lat <= p.lat /\ p.lat <= max_lat
        /\ min_lon <= p.lon /\ p.lon <= max_lon

\* if length <= 5
TooShortInclusive(length) == length <= MinLengthMicro

\* line 184: if length < 5
TooShort(length) == length < MinLengthMicro

\* The road is linked to the road made before it as soon as it is made.
MakeRoadLinked(id, way, start, end, length) ==
    [ id          |-> id,
      osmWayId    |-> way.id,
      name        |-> way.name,
      startLat    |-> start.lat,
      startLon    |-> start.lon,
      endLat      |-> end.lat,
      endLon      |-> end.lon,
      length      |-> RoundLength(length),
      maxSpeed    |-> RoundSpeed(way.maxSpeed),
      lanes       |-> way.lanes,
      connections |-> IF id = 0 THEN <<>>
                      ELSE <<[roadId |-> id - 1, lane |-> 0, probability |-> 1000000]>> ]

\* lines 188-200 and 209-221: the road dict
MakeRoad(id, way, start, end, length) ==
    [ id          |-> id,
      osmWayId    |-> way.id,
      name        |-> way.name,
      startLat    |-> start.lat,
      startLon    |-> start.lon,
      endLat      |-> end.lat,
      endLon      |-> end.lon,
      length      |-> RoundLength(length),
      maxSpeed    |-> RoundSpeed(way.maxSpeed),
      lanes       |-> way.lanes,
      connections |-> <<>> ]

\* d[k] = v
DictSet(d, k, v) == [x \in DOMAIN d \cup {k} |-> IF x = k THEN v ELSE d[x]]

\* d[k] of a defaultdict(list)
DefaultGet(d, k) == IF k \in DOMAIN d THEN d[k] ELSE <<>>

\* d[k].insert(0, v): the newest entry comes first
DefaultPrepend(d, k, v) == DictSet(d, k, <<v>> \o DefaultGet(d, k))

\* d[k].append(v) on a defaultdict(list)
DefaultAppend(d, k, v) == DictSet(d, k, Append(DefaultGet(d, k), v))

\* The counter is not advanced.
NextRoadIdStuck(id) == id

\* lines 205 and 226: road_id += 1
NextRoadId(id) == id + 1

\* The road is put at the front of the list.
AddRoadAtFront(st, road, from, to, src) ==
    [ roads                  |-> <<road>> \o st.roads,
      road_id                |-> st.road_id + 1,
      node_pair_to_road      |-> DictSet(st.node_pair_to_road, <<from, to>>, st.road_id),
      node_to_incoming_roads |-> DefaultAppend(st.node_to_incoming_roads, to, st.road_id),
      node_to_outgoing_roads |-> DefaultAppend(st.node_to_outgoing_roads, from, st.road_id),
      incoming_keys          |-> IF to \in DOMAIN st.node_to_incoming_roads
                                 THEN st.incoming_keys
                                 ELSE Append(st.incoming_keys, to),
      road_src               |-> <<src>> \o st.road_src ]

\* The road is filed under the coordinates of its end points, not their ids.
AddRoadByCoordinates(st, road, from, to, src) ==
    LET a == <<road.startLat, road.startLon>>
        b == <<road.endLat, road.endLon>>
    IN  [ roads                  |-> Append(st.roads, road),
          road_id                |-> st.road_id + 1,
          node_pair_to_road      |-> DictSet(st.node_pair_to_road, <<from, to>>, st.road_id),
          node_to_incoming_roads |-> DefaultAppend(st.node_to_incoming_roads, b, st.road_id),
          node_to_outgoing_roads |-> DefaultAppend(st.node_to_outgoing_roads, a, st.road_id),
          incoming_keys          |-> IF b \in DOMAIN st.node_to_incoming_roads
                                     THEN st.incoming_keys
                                     ELSE Append(st.incoming_keys, b),
          road_src               |-> Append(st.road_src, src) ]

\* The road is filed as leaving the node at which it ends.
AddRoadOutgoingAtEnd(st, road, from, to, src) ==
    [ roads                  |-> Append(st.roads, road),
      road_id                |-> st.road_id + 1,
      node_pair_to_road      |-> DictSet(st.node_pair_to_road, <<from, to>>, st.road_id),
      node_to_incoming_roads |-> DefaultAppend(st.node_to_incoming_roads, to, st.road_id),
      node_to_outgoing_roads |-> DefaultAppend(st.node_to_outgoing_roads, to, st.road_id),
      incoming_keys          |-> IF to \in DOMAIN st.node_to_incoming_roads
                                 THEN st.incoming_keys
                                 ELSE Append(st.incoming_keys, to),
      road_src               |-> Append(st.road_src, src) ]

\* lines 201-205 and 222-226: append the road and record it
AddRoad(st, road, from, to, src) ==
    [ roads                  |-> Append(st.roads, road),
      road_id                |-> NextRoadId(st.road_id),
      node_pair_to_road      |-> DictSet(st.node_pair_to_road, <<from, to>>, st.road_id),
      node_to_incoming_roads |-> DefaultAppend(st.node_to_incoming_roads, to, st.road_id),
      node_to_outgoing_roads |-> DefaultAppend(st.node_to_outgoing_roads, from, st.road_id),
      incoming_keys          |-> IF to \in DOMAIN st.node_to_incoming_roads
                                 THEN st.incoming_keys
                                 ELSE Append(st.incoming_keys, to),
      road_src               |-> Append(st.road_src, src) ]

\* The reverse road is made for every way.
EmitsReverseAlways(way) == TRUE

\* line 208: if not way['oneway']
EmitsReverse(way) == ~way.oneway

\* the way is given up as soon as any of its nodes is missing
NodesMissingInWay(ns, way, i) == \E j \in 1..Len(way.nodes) : way.nodes[j] \notin DOMAIN ns

\* line 169: a node of the pair is not in the nodes dict
NodesMissing(ns, way, i) ==
    way.nodes[i] \notin DOMAIN ns \/ way.nodes[i + 1] \notin DOMAIN ns

\* lines 166-226: the body of the inner loop for pair i of the way at position w
DecomposedPair(st, ns, b, way, w, i) ==
    LET start_node_id == way.nodes[i]
        end_node_id   == way.nodes[i + 1]
    IN  IF NodesMissing(ns, way, i)
        THEN st
        ELSE
          LET start  == ns[start_node_id]
              end    == ns[end_node_id]
              length == haversine_distance(start.lat, start.lon, end.lat, end.lon)
              fwd    == AddRoad(st, MakeRoad(st.road_id, way, start, end, length),
                                start_node_id, end_node_id,
                                [way |-> w, pair |-> i, from |-> start_node_id,
                                 to |-> end_node_id])
          IN  IF ~InBBox(start, b) THEN st
              ELSE IF ~InBBox(end, b) THEN st
              ELSE IF TooShort(length) THEN st
              ELSE IF EmitsReverse(way)
                   THEN AddRoad(fwd, MakeRoad(fwd.road_id, way, end, start, length),
                                end_node_id, start_node_id,
                                [way |-> w, pair |-> i, from |-> end_node_id,
                                 to |-> start_node_id])
                   ELSE fwd

BuildState ==
    [ roads                  |-> roads,
      road_id                |-> road_id,
      node_pair_to_road      |-> node_pair_to_road,
      node_to_incoming_roads |-> node_to_incoming_roads,
      node_to_outgoing_roads |-> node_to_outgoing_roads,
      incoming_keys          |-> incoming_keys,
      road_src               |-> road_src ]

DecomposePair ==
    /\ pc = "decompose"
    /\ LET st == DecomposedPair(BuildState, nodes, bbox, ways[way_idx], way_idx, pair_idx)
           more == pair_idx < NumPairs(ways[way_idx])
           w == IF more THEN way_idx ELSE FirstWay(ways, way_idx + 1)
       IN  /\ roads' = st.roads
           /\ road_id' = st.road_id
           /\ node_pair_to_road' = st.node_pair_to_road
           /\ node_to_incoming_roads' = st.node_to_incoming_roads
           /\ node_to_outgoing_roads' = st.node_to_outgoing_roads
           /\ incoming_keys' = st.incoming_keys
           /\ road_src' = st.road_src
           /\ way_idx' = w
           /\ pair_idx' = IF more THEN pair_idx + 1 ELSE 1
           /\ pc' = IF w <= Len(ways) THEN "decompose"
                    ELSE IF st.incoming_keys = <<>> THEN "write"
                    ELSE "connect"
    /\ UNCHANGED <<id_checks, args_bbox, bbox, fetches, osm_data, nodes, ways, node_idx, output>>

(***************************************************************************)
(* build_road_network, lines 229-255: one node of node_to_incoming_roads.  *)
(***************************************************************************)
\* No turn is taken for a U-turn.
IsUTurnNever(in_road, out_road) == FALSE

\* The test also asks for the two roads to come from the same OSM way.
IsUTurnSameWay(in_road, out_road) ==
    /\ in_road.osmWayId = out_road.osmWayId
    /\ in_road.startLat = out_road.endLat
    /\ in_road.startLon = out_road.endLon
    /\ in_road.endLat = out_road.startLat
    /\ in_road.endLon = out_road.startLon

\* lines 245-248: the U-turn test
IsUTurn(in_road, out_road) ==
    /\ in_road.startLat = out_road.endLat
    /\ in_road.startLon = out_road.endLon
    /\ in_road.endLat = out_road.startLat
    /\ in_road.endLon = out_road.startLon

\* lines 251-255: the connection dict
MakeConnection(out_road_id, prob) ==
    [roadId |-> out_road_id, lane |-> 0, probability |-> prob]

\* A U-turn ends the loop over outgoing (break for continue).
RECURSIVE ConnectOutgoingBreak(_, _, _, _)
ConnectOutgoingBreak(rs, in_road_id, outgoing, prob) ==
    IF outgoing = <<>> THEN rs
    ELSE IF IsUTurn(rs[in_road_id + 1], rs[Head(outgoing) + 1]) THEN rs
    ELSE ConnectOutgoingBreak(
             [rs EXCEPT ![in_road_id + 1].connections =
                 Append(@, MakeConnection(Head(outgoing), prob))],
             in_road_id, Tail(outgoing), prob)

\* lines 239-255: the loop over outgoing for one incoming road
RECURSIVE ConnectOutgoing(_, _, _, _)
ConnectOutgoing(rs, in_road_id, outgoing, prob) ==
    IF outgoing = <<>> THEN rs
    ELSE LET out_road_id == Head(outgoing)
             in_road     == rs[in_road_id + 1]
             out_road    == rs[out_road_id + 1]
             next ==
                 IF IsUTurn(in_road, out_road) THEN rs
                 ELSE [rs EXCEPT ![in_road_id + 1].connections =
                          Append(@, MakeConnection(out_road_id, prob))]
         IN  ConnectOutgoing(next, in_road_id, Tail(outgoing), prob)

\* lines 238-255: the loop over incoming
RECURSIVE ConnectIncoming(_, _, _, _)
ConnectIncoming(rs, incoming, outgoing, prob) ==
    IF incoming = <<>> THEN rs
    ELSE ConnectIncoming(ConnectOutgoing(rs, Head(incoming), outgoing, prob),
                         Tail(incoming), outgoing, prob)

\* A road that ends where no road leaves is closed (0 lanes).
ConnectedNodeClosingDeadEnds(rs, incoming, outgoing) ==
    IF outgoing = <<>>
    THEN [k \in 1..Len(rs) |->
             IF \E i \in 1..Len(incoming) : incoming[i] = rs[k].id
             THEN [rs[k] EXCEPT !.lanes = 0] ELSE rs[k]]
    ELSE ConnectIncoming(rs, incoming, outgoing, Prob(Len(outgoing)))

\* The probability is taken over the outgoing roads less the U-turn.
ConnectedNodeLessUTurn(rs, incoming, outgoing) ==
    IF outgoing = <<>> THEN rs
    ELSE ConnectIncoming(rs, incoming, outgoing, Prob(Max(1, Len(outgoing) - 1)))

\* lines 230-255: the body of the loop for one node
ConnectedNode(rs, incoming, outgoing) ==
    IF outgoing = <<>> THEN rs
    ELSE ConnectIncoming(rs, incoming, outgoing, Prob(Len(outgoing)))

ConnectNode ==
    /\ pc = "connect"
    /\ LET node_id  == incoming_keys[node_idx]
           incoming == node_to_incoming_roads[node_id]
           outgoing == DefaultGet(node_to_outgoing_roads, node_id)
       IN  /\ roads' = ConnectedNode(roads, incoming, outgoing)
           /\ node_to_outgoing_roads' = DictSet(node_to_outgoing_roads, node_id, outgoing)
    /\ node_idx' = node_idx + 1
    /\ pc' = IF node_idx' > Len(incoming_keys) THEN "write" ELSE "connect"
    /\ UNCHANGED <<id_checks, args_bbox, bbox, fetches, osm_data, nodes, ways, road_id,
                   node_pair_to_road, node_to_incoming_roads, incoming_keys,
                   way_idx, pair_idx, output, road_src>>

(***************************************************************************)
(* main, lines 282-301: the document is built and written.  The text of    *)
(* the file is kept as its sequence of JSON tokens (the white space that   *)
(* indent=2 puts between tokens is left out); a number token carries the   *)
(* number in the unit of the model.                                        *)
(***************************************************************************)
Punct(c) == [kind |-> "punct", val |-> c]

JsonNumber(n) == <<[kind |-> "num", val |-> n]>>

JsonString(s) == <<[kind |-> "str", val |-> s]>>

\* the texts of the items, separated by commas
RECURSIVE JsonJoin(_)
JsonJoin(items) ==
    IF items = <<>> THEN <<>>
    ELSE IF Len(items) = 1 THEN items[1]
    ELSE items[1] \o <<Punct(",")>> \o JsonJoin(Tail(items))

\* a list
JsonArray(items) == <<Punct("[")>> \o JsonJoin(items) \o <<Punct("]")>>

\* a dict, its keys in insertion order
JsonObject(keys, values) ==
    <<Punct("{")>>
    \o JsonJoin([i \in 1..Len(keys) |-> JsonString(keys[i]) \o <<Punct(":")>> \o values[i]])
    \o <<Punct("}")>>

\* lines 250-254: a connection
DumpConnection(c) ==
    JsonObject(<<"roadId", "lane", "probability">>,
               <<JsonNumber(c.roadId), JsonNumber(c.lane), JsonNumber(c.probability)>>)

\* lines 188-200: a road
DumpRoad(r) ==
    JsonObject(<<"id", "osmWayId", "name", "startLat", "startLon", "endLat", "endLon",
                 "length", "maxSpeed", "lanes", "connections">>,
               <<JsonNumber(r.id), JsonNumber(r.osmWayId), JsonString(r.name),
                 JsonNumber(r.startLat), JsonNumber(r.startLon),
                 JsonNumber(r.endLat), JsonNumber(r.endLon),
                 JsonNumber(r.length), JsonNumber(r.maxSpeed), JsonNumber(r.lanes),
                 JsonArray([i \in 1..Len(r.connections) |->
                               DumpConnection(r.connections[i])])>>)

\* line 298: json.dump(network, f, indent=2)
JsonDump(network) ==
    JsonObject(<<"name", "bbox", "roads">>,
               <<JsonString(network.name),
                 JsonArray([i \in 1..Len(network.bbox) |-> JsonNumber(network.bbox[i])]),
                 JsonArray([i \in 1..Len(network.roads) |-> DumpRoad(network.roads[i])])>>)

\* The document leaves out the roads that have no connection.
NetworkWithoutDeadEnds ==
    [name |-> "Network", bbox |-> bbox,
     roads |-> SelectSeq(roads, LAMBDA r : r.connections # <<>>)]

\* lines 290-294: network
Network == [name |-> "Network", bbox |-> bbox, roads |-> roads]

WriteOutput ==
    /\ pc = "write"
    /\ output' = <<JsonDump(Network)>>
    /\ pc' = "exit_0"
    /\ UNCHANGED <<id_checks, args_bbox, bbox, fetches, osm_data, nodes, ways>>
    /\ UNCHANGED buildVars

Next ==
    \/ ParseArgs
    \/ FetchOk
    \/ FetchFail
    \/ ParseOsmData
    \/ DecomposePair
    \/ ConnectNode
    \/ WriteOutput

Spec == Init /\ [][Next]_vars

(***************************************************************************)
(* Vocabulary of the properties.                                           *)
(***************************************************************************)
\* build_road_network has finished its first loop / has returned.
Decomposed == pc \in {"connect", "write", "exit_0"}

Built == pc \in {"write", "exit_0"}

RoadIdx == 1..Len(roads)

\* The consecutive node pairs of the ways: <<way position, pair position>>.
AllPairs == UNION {{<<w, i>> : i \in 1..NumPairs(ways[w])} : w \in 1..Len(ways)}

PairStart(wi) == ways[wi[1]].nodes[wi[2]]

PairEnd(wi) == ways[wi[1]].nodes[wi[2] + 1]

PairKnown(wi) == PairStart(wi) \in DOMAIN nodes /\ PairEnd(wi) \in DOMAIN nodes

\* The point lies in the box, bounds included.
Inside(p) ==
    /\ bbox[1] <= p.lon /\ p.lon <= bbox[3]
    /\ bbox[2] <= p.lat /\ p.lat <= bbox[4]

PairInside(wi) == Inside(nodes[PairStart(wi)]) /\ Inside(nodes[PairEnd(wi)])

\* The distance between the two nodes of the pair, in micrometres.
PairLength(wi) ==
    haversine_distance(nodes[PairStart(wi)].lat, nodes[PairStart(wi)].lon,
                       nodes[PairEnd(wi)].lat, nodes[PairEnd(wi)].lon)

\* The pair passes the missing-node, bounding-box and minimum-length filters.
PairPasses(wi) == PairKnown(wi) /\ PairInside(wi) /\ PairLength(wi) >= 5000000

\* The roads made from a pair.
RoadsOf(wi) == {k \in RoadIdx : road_src[k].way = wi[1] /\ road_src[k].pair = wi[2]}

\* The roads that start / end at a map node.
StartingAt(n) == {k \in RoadIdx : road_src[k].from = n}

EndingAt(n) == {k \in RoadIdx : road_src[k].to = n}

\* Road t runs between the end points of road s in the other direction.
GeometricReverse(s, t) ==
    /\ roads[t].startLat = roads[s].endLat /\ roads[t].startLon = roads[s].endLon
    /\ roads[t].endLat = roads[s].startLat /\ roads[t].endLon = roads[s].startLon

ConnIdx(s) == 1..Len(roads[s].connections)

\* Some pair was dropped by a filter and a one-way and a bidirectional way
\* both produced roads.
MixedAndFiltered ==
    /\ \E wi \in AllPairs : ~PairPasses(wi)
    /\ \E k \in RoadIdx : ways[road_src[k].way].oneway
    /\ \E k \in RoadIdx : ~ways[road_src[k].way].oneway

(***************************************************************************)
(* C1: in the segment list of build_road_network the segment at list       *)
(* position i has id i, counting from 0, whatever was filtered out.        *)
(***************************************************************************)
C1_IdsArePositions == \A k \in RoadIdx : roads[k].id = k - 1

C1_Witness == pc = "exit_0" /\ Len(roads) >= 3 /\ MixedAndFiltered

(***************************************************************************)
(* C2: every connection of every segment names an existing segment, and    *)
(* that segment starts at the map node at which the owning segment ends.   *)
(***************************************************************************)
C2_ConnectionsFollowNodes ==
    \A s \in RoadIdx : \A j \in ConnIdx(s) :
        LET c == roads[s].connections[j]
        IN  /\ 0 <= c.roadId /\ c.roadId < Len(roads)
            /\ roads[c.roadId + 1].id = c.roadId
            /\ road_src[c.roadId + 1].from = road_src[s].to

C2_Witness ==
    /\ pc = "exit_0"
    /\ \E s \in RoadIdx : Len(roads[s].connections) >= 2

(***************************************************************************)
(* C3: no connection has roadId equal to the id of the segment that owns   *)
(* it, also for ways that repeat a node id and for closed ways.            *)
(***************************************************************************)
C3_NoSelfConnection ==
    \A s \in RoadIdx : \A j \in ConnIdx(s) :
        roads[s].connections[j].roadId # roads[s].id

\* A closed way (first node = last node) that also repeats a node id in
\* consecutive positions produced roads with connections.
C3_Witness ==
    /\ pc = "exit_0"
    /\ \E w \in 1..Len(ways) :
          LET ns == ways[w].nodes
          IN  /\ ns[1] = ns[Len(ns)]
              /\ \E i \in 1..(Len(ns) - 1) : ns[i] = ns[i + 1]
              /\ \E k \in RoadIdx : road_src[k].way = w /\ roads[k].connections # <<>>

OutgoingCount(s) == Cardinality(StartingAt(road_src[s].to))

(***************************************************************************)
(* C5, as stated: every connection of a segment that ends at node n has    *)
(* probability exactly 1 / (number of segments starting at n), counted     *)
(* before U-turn suppression and not renormalized.                         *)
(***************************************************************************)
C5_ProbabilityIsExactInverse ==
    \A s \in RoadIdx : \A j \in ConnIdx(s) :
        roads[s].connections[j].probability * OutgoingCount(s) = 1000000

(***************************************************************************)
(* C5, amended: every connection of a segment that ends at node n has      *)
(* probability 1 / (number of segments starting at n) rounded to 6         *)
(* decimals, counted before U-turn suppression and not renormalized.       *)
(***************************************************************************)
C5_ProbabilityIsRoundedInverse ==
    \A s \in RoadIdx : \A j \in ConnIdx(s) :
        /\ OutgoingCount(s) >= 1
        /\ 2 * Abs(roads[s].connections[j].probability * OutgoingCount(s) - 1000000)
              <= OutgoingCount(s)

\* Three segments start where s ends, one is suppressed, and another segment
\* is left with one connection of 0.5 out of two outgoing segments.
C5_Witness ==
    /\ pc = "exit_0"
    /\ \E s \in RoadIdx :
          /\ OutgoingCount(s) = 3
          /\ Len(roads[s].connections) = 2
          /\ roads[s].connections[1].probability = 333333
    /\ \E s \in RoadIdx :
          /\ OutgoingCount(s) = 2
          /\ Len(roads[s].connections) = 1
          /\ roads[s].connections[1].probability = 500000

(***************************************************************************)
(* C6: once the network is built, the connections of a segment s that ends *)
(* at node n are exactly one connection, with lane 0, for each segment     *)
(* that starts at n and is neither s nor the geometric reverse of s; none  *)
(* if no segment starts at n.                                              *)
(***************************************************************************)
Targets(s) ==
    {t \in StartingAt(road_src[s].to) : t # s /\ ~GeometricReverse(s, t)}

C6_ConnectionsExact ==
    Built =>
      \A s \in RoadIdx :
        /\ \A t \in Targets(s) :
              Cardinality({j \in ConnIdx(s) :
                              roads[s].connections[j].roadId = roads[t].id}) = 1
        /\ \A j \in ConnIdx(s) :
              /\ roads[s].connections[j].lane = 0
              /\ \E t \in Targets(s) : roads[t].id = roads[s].connections[j].roadId

\* A segment kept a connection and lost one to U-turn suppression, and a
\* segment ends at a node where nothing starts.
C6_Witness ==
    /\ pc = "exit_0"
    /\ \E s \in RoadIdx :
          /\ Targets(s) # {}
          /\ OutgoingCount(s) > Cardinality(Targets(s))
          /\ Len(roads[s].connections) = Cardinality(Targets(s))
    /\ \E s \in RoadIdx : OutgoingCount(s) = 0 /\ roads[s].connections = <<>>

(***************************************************************************)
(* C7: every segment has its start point and its end point inside the      *)
(* bounding box, bounds included: a pair with a point exactly on a bound   *)
(* is kept, a pair with either end point outside yields no segment.        *)
(***************************************************************************)
C7_InsideBBox ==
    /\ \A k \in RoadIdx :
          /\ bbox[1] <= roads[k].startLon /\ roads[k].startLon <= bbox[3]
          /\ bbox[2] <= roads[k].startLat /\ roads[k].startLat <= bbox[4]
          /\ bbox[1] <= roads[k].endLon /\ roads[k].endLon <= bbox[3]
          /\ bbox[2] <= roads[k].endLat /\ roads[k].endLat <= bbox[4]
    /\ Decomposed =>
          \A wi \in AllPairs :
              /\ PairKnown(wi) /\ ~PairInside(wi) => RoadsOf(wi) = {}
              /\ PairPasses(wi) => RoadsOf(wi) # {}

\* In a cut box a segment touches all four bounds and a pair with a point
\* outside was visited.
C7_Witness ==
    /\ pc = "exit_0"
    /\ bbox # FullBBox
    /\ \E k \in RoadIdx :
          /\ roads[k].startLon = bbox[1] /\ roads[k].endLon = bbox[3]
          /\ roads[k].startLat = bbox[2] /\ roads[k].endLat = bbox[4]
    /\ \E wi \in AllPairs : PairKnown(wi) /\ ~PairInside(wi)

(***************************************************************************)
(* C8: every segment has length >= 5 m, also as rounded to one decimal; a  *)
(* consecutive pair less than 5 m apart yields no segment and is not       *)
(* merged with a neighbour (every segment joins the two nodes of one       *)
(* consecutive pair of its way); a pair exactly 5 m apart is kept.         *)
(***************************************************************************)
C8_MinLength ==
    /\ \A k \in RoadIdx :
          LET wi == <<road_src[k].way, road_src[k].pair>>
          IN  /\ roads[k].length >= 50
              /\ wi \in AllPairs
              /\ {road_src[k].from, road_src[k].to} = {PairStart(wi), PairEnd(wi)}
              /\ roads[k].startLat = nodes[road_src[k].from].lat
              /\ roads[k].startLon = nodes[road_src[k].from].lon
              /\ roads[k].endLat = nodes[road_src[k].to].lat
              /\ roads[k].endLon = nodes[road_src[k].to].lon
              /\ PairLength(wi) >= 5000000
    /\ Decomposed =>
          \A wi \in AllPairs :
              /\ PairKnown(wi) /\ PairLength(wi) < 5000000 => RoadsOf(wi) = {}
              /\ PairKnown(wi) /\ PairInside(wi) /\ PairLength(wi) = 5000000
                    => RoadsOf(wi) # {}

\* A pair 4.959293 m apart was dropped next to a pair exactly 5 m apart that
\* was kept with length 5.0.
C8_Witness ==
    /\ pc = "exit_0"
    /\ \E wi \in AllPairs :
          PairKnown(wi) /\ PairLength(wi) = 4959293 /\ RoadsOf(wi) = {}
    /\ \E wi \in AllPairs :
          /\ PairKnown(wi) /\ PairLength(wi) = 5000000
          /\ \E k \in RoadsOf(wi) : roads[k].length = 50

(***************************************************************************)
(* C9: a consecutive pair that passes the three filters yields exactly one *)
(* segment (start to end) if its way is one-way and exactly two if not, a  *)
(* forward and a reverse one with swapped end points, equal length, speed  *)
(* and lane count and the way's id; a pair that fails a filter yields none.*)
(***************************************************************************)
RunsBetween(k, a, b) ==
    /\ road_src[k].from = a /\ road_src[k].to = b
    /\ roads[k].startLat = nodes[a].lat /\ roads[k].startLon = nodes[a].lon
    /\ roads[k].endLat = nodes[b].lat /\ roads[k].endLon = nodes[b].lon

C9_SegmentsPerPair ==
    Decomposed =>
      \A wi \in AllPairs :
        LET R   == RoadsOf(wi)
            way == ways[wi[1]]
        IN  IF ~PairPasses(wi) THEN R = {}
            ELSE IF way.oneway
            THEN \E f \in R :
                    /\ R = {f}
                    /\ RunsBetween(f, PairStart(wi), PairEnd(wi))
                    /\ roads[f].osmWayId = way.id
            ELSE \E f, r \in R :
                    /\ f # r
                    /\ R = {f, r}
                    /\ RunsBetween(f, PairStart(wi), PairEnd(wi))
                    /\ RunsBetween(r, PairEnd(wi), PairStart(wi))
                    /\ roads[f].length = roads[r].length
                    /\ roads[f].maxSpeed = roads[r].maxSpeed
                    /\ roads[f].lanes = roads[r].lanes
                    /\ roads[f].osmWayId = way.id
                    /\ roads[r].osmWayId = way.id

\* A one-way way and a bidirectional way each had a passing pair, and some
\* pair failed a filter.
C9_Witness ==
    /\ Decomposed
    /\ \E wi \in AllPairs : PairPasses(wi) /\ ways[wi[1]].oneway
    /\ \E wi \in AllPairs : PairPasses(wi) /\ ~ways[wi[1]].oneway
    /\ \E wi \in AllPairs : ~PairPasses(wi)

(***************************************************************************)
(* C10: the lane count of a way's segments is the way's lane count L (the  *)
(* lanes tag if it parses as an integer, else the road-class default) if   *)
(* the way is one-way, and max(1, floor(L / 2)) if it is bidirectional.    *)
(***************************************************************************)
\* The way element of the response that ways[w] was parsed from.
WayElementAt(w) == SelectSeq(osm_data[1].elements, LAMBDA e : e.type = "way")[w]

\* L: the lanes tag as an integer, else the default of the road class.
LaneCountOf(element) ==
    LET tags  == element.tags
        class == IF tags.highway.present THEN tags.highway.value ELSE "unclassified"
    IN  IF tags.lanes.present /\ PyInt(tags.lanes.value).ok
        THEN PyInt(tags.lanes.value).val
        ELSE IF class \in DOMAIN DEFAULT_LANES THEN DEFAULT_LANES[class] ELSE 1

C10_LaneCount ==
    \A k \in RoadIdx :
        LET w == road_src[k].way
            L == LaneCountOf(WayElementAt(w))
        IN  roads[k].lanes =
                IF ways[w].oneway THEN L
                ELSE IF L \div 2 >= 1 THEN L \div 2 ELSE 1

\* A bidirectional way tagged lanes=3 carries 1 lane per direction.
C10_Witness ==
    /\ roads # <<>>
    /\ LET element == WayElementAt(road_src[1].way)
       IN  /\ element.tags.lanes = Tag(<<"3">>)
           /\ ~ways[road_src[1].way].oneway
           /\ roads[1].lanes = 1

(***************************************************************************)
(* C11: every segment has a lane count of at least 1, for every way,       *)
(* whatever its one-way flag and whatever integer its lanes tag parses to. *)
(***************************************************************************)
C11_LanesAtLeastOne == \A k \in RoadIdx : roads[k].lanes >= 1

(***************************************************************************)
(* C12: every segment has a speed limit greater than 0 m/s, whatever       *)
(* integer the way's maxspeed tag parses to.                               *)
(***************************************************************************)
C12_SpeedPositive == \A k \in RoadIdx : roads[k].maxSpeed > 0

\* The way elements of the response, in order.
WayElementsOf(response) == SelectSeq(response.elements, LAMBDA e : e.type = "way")

(***************************************************************************)
(* C13: the speed of a way in km/h is the explicit maxspeed value when the *)
(* tag is present and parses as an integer (after its unit suffix is       *)
(* removed), whatever the road class (a one-way way tagged maxspeed=50     *)
(* gives 50 / 3.6 m/s), and the road-class table value otherwise (30 km/h  *)
(* for a class the table lacks); an unparseable maxspeed neither aborts    *)
(* the run nor drops the way.                                              *)
(***************************************************************************)
\* The speed the claim gives to a way element, in km/h.
SpeedKmhOf(element) ==
    LET tags  == element.tags
        class == IF tags.highway.present THEN tags.highway.value ELSE "unclassified"
        text  == Remove(Remove(tags.maxspeed.value, KmhSuffix), MphSuffix)
    IN  IF tags.maxspeed.present /\ PyInt(text).ok
        THEN PyInt(text).val
        ELSE IF class \in DOMAIN ROAD_TYPES THEN ROAD_TYPES[class] ELSE 30

OnewayLiteral(element) ==
    /\ element.tags.oneway.present
    /\ element.tags.oneway.value \in {"yes", "1", "true"}

C14_OnewayLiteral ==
    Built =>
        LET elements == WayElementsOf(osm_data[1])
            literal  == [w \in 1..Len(elements) |-> OnewayLiteral(elements[w])]
        IN  /\ \A w \in 1..Len(ways) : ways[w].oneway <=> literal[w]
            /\ \A wi \in AllPairs :
                  PairPasses(wi) =>
                      LET made    == RoadsOf(wi)
                          forward == {k \in made : road_src[k].from = PairStart(wi)
                                                   /\ road_src[k].to = PairEnd(wi)}
                          reverse == {k \in made : road_src[k].from = PairEnd(wi)
                                                   /\ road_src[k].to = PairStart(wi)}
                      IN  /\ Cardinality(forward) = 1
                          /\ Cardinality(made) = IF literal[wi[1]] THEN 1 ELSE 2
                          /\ ~literal[wi[1]] => Cardinality(reverse) = 1

\* A way tagged oneway=-1 got a forward and a reverse road for its first
\* pair.
C14_Witness ==
    /\ Built
    /\ Len(ways) = 1
    /\ WayElementAt(1).tags.oneway = Tag("-1")
    /\ \E s, t \in RoadsOf(<<1, 1>>) :
          /\ road_src[s].from = road_src[t].to
          /\ road_src[s].to = road_src[t].from
          /\ s # t

(***************************************************************************)
(* C15: when a way references a node id that the node set lacks, exactly   *)
(* the consecutive pairs that contain that id produce no segment; every    *)
(* other pair of the way and every other way is still processed (it gets   *)
(* its segments when it passes the box and length filters), the run does   *)
(* not abort, and the surviving segments are numbered contiguously.        *)
(***************************************************************************)
C15_MissingNodeSkipsPair ==
    /\ osm_data # <<>> => pc # "raised"
    /\ \A k \in RoadIdx : roads[k].id = k - 1
    /\ Decomposed =>
          \A wi \in AllPairs :
              /\ ~PairKnown(wi) => RoadsOf(wi) = {}
              /\ PairKnown(wi) =>
                    (RoadsOf(wi) # {} <=> PairInside(wi) /\ PairLength(wi) >= 5000000)

\* A way lost the pair that names a missing node and kept another pair; a
\* later way was built too, and the run ended normally.
C15_Witness ==
    /\ pc = "exit_0"
    /\ \E w1, w2 \in 1..Len(ways) :
          /\ w1 < w2
          /\ \E i, j \in 1..NumPairs(ways[w1]) :
                /\ ~PairKnown(<<w1, i>>)
                /\ RoadsOf(<<w1, j>>) # {}
          /\ \E j \in 1..NumPairs(ways[w2]) : RoadsOf(<<w2, j>>) # {}

(***************************************************************************)
(* Chains: a single bidirectional way over pairwise distinct nodes.        *)
(***************************************************************************)
\* The network is one bidirectional way whose node ids are pairwise distinct
\* and whose pairs all pass the filters.
IsChain ==
    /\ Len(ways) = 1
    /\ ~ways[1].oneway
    /\ NumPairs(ways[1]) >= 1
    /\ \A i, j \in 1..Len(ways[1].nodes) : i # j => ways[1].nodes[i] # ways[1].nodes[j]
    /\ \A i \in 1..NumPairs(ways[1]) : PairPasses(<<1, i>>)

\* The node at which road s ends is neither the first nor the last of the chain.
EndsAtInterior(s) ==
    \E j \in 2..(Len(ways[1].nodes) - 1) : ways[1].nodes[j] = road_src[s].to

\* The roads that continue road s in its direction of travel: they start
\* where s ends and do not lead back to where s started.
NextInDirection(s) ==
    {t \in RoadIdx : /\ road_src[t].from = road_src[s].to
                     /\ road_src[t].to # road_src[s].from}

\* What the claim says of every segment of a chain.
ChainConnected ==
    /\ Len(roads) = 2 * NumPairs(ways[1])
    /\ \A s \in RoadIdx :
          IF EndsAtInterior(s)
          THEN /\ Len(roads[s].connections) = 1
               /\ Cardinality(NextInDirection(s)) = 1
               /\ \E t \in NextInDirection(s) :
                     roads[s].connections[1].roadId = roads[t].id
               /\ roads[s].connections[1].probability = 500000
          ELSE roads[s].connections = <<>>

\* No two nodes of the chain lie at the same coordinates.
ChainPointsDistinct ==
    \A i, j \in 1..Len(ways[1].nodes) :
        i # j => nodes[ways[1].nodes[i]] # nodes[ways[1].nodes[j]]

C17_BadBBoxStopsEarly ==
    Len(args_bbox) # 4 =>
        /\ pc \in {"main", "exit_1"}
        /\ fetches = 0
        /\ osm_data = <<>>
        /\ ways = <<>>
        /\ roads = <<>>
        /\ output = <<>>

\* A run given five values has returned 1.
C17_Witness == pc = "exit_1" /\ Len(args_bbox) = 5

(***************************************************************************)
(* C18: the map-data fetch is attempted at most once per run; if it fails  *)
(* the run aborts: the fetch is not retried, no segment is built and no    *)
(* output is written.                                                      *)
(***************************************************************************)
C18_FetchOnceAbortOnFailure ==
    /\ fetches <= 1
    /\ pc = "raised" =>
          /\ fetches = 1
          /\ osm_data = <<>>
          /\ ways = <<>>
          /\ roads = <<>>
          /\ output = <<>>
    /\ (ways # <<>> \/ roads # <<>> \/ output # <<>>) => (osm_data # <<>> /\ fetches = 1)

\* The one request of a run with a valid box has failed.
C18_Witness == pc = "raised" /\ fetches = 1 /\ Len(bbox) = 4

(***************************************************************************)
(* C19: before the network is emitted, the assembler checks that every     *)
(* segment's id equals its list position, and if some segment's id         *)
(* diverges from its position the run aborts without writing the network.  *)
(***************************************************************************)
C19_IdsCheckedBeforeWrite ==
    /\ output # <<>> => id_checks >= 1
    /\ (\E k \in RoadIdx : roads[k].id # k - 1) => output = <<>>

(***************************************************************************)
(* Reading a JSON text back (json.load): a list becomes a sequence, a dict *)
(* a function of its keys (a repeated key keeps its last value), a string  *)
(* or number token its value.                                              *)
(***************************************************************************)
IsPunct(tok, c) == tok.kind = "punct" /\ tok.val = c

RECURSIVE JsonParseValue(_, _), JsonParseItems(_, _, _), JsonParseMembers(_, _, _)
\* the value that starts at position pos, and the position after it
JsonParseValue(toks, pos) ==
    LET tok == toks[pos]
    IN  IF IsPunct(tok, "[")
        THEN IF IsPunct(toks[pos + 1], "]")
             THEN [val |-> <<>>, next |-> pos + 2]
             ELSE JsonParseItems(toks, pos + 1, <<>>)
        ELSE IF IsPunct(tok, "{")
        THEN IF IsPunct(toks[pos + 1], "}")
             THEN [val |-> EmptyDict, next |-> pos + 2]
             ELSE JsonParseMembers(toks, pos + 1, EmptyDict)
        ELSE [val |-> tok.val, next |-> pos + 1]

\* the items of a list from position pos on, after the items in acc
JsonParseItems(toks, pos, acc) ==
    LET item == JsonParseValue(toks, pos)
    IN  IF IsPunct(toks[item.next], ",")
        THEN JsonParseItems(toks, item.next + 1, Append(acc, item.val))
        ELSE [val |-> Append(acc, item.val), next |-> item.next + 1]

\* the members of a dict from position pos on, after the members in acc
JsonParseMembers(toks, pos, acc) ==
    LET member == JsonParseValue(toks, pos + 2)
        dict   == (toks[pos].val :> member.val) @@ acc
    IN  IF IsPunct(toks[member.next], ",")
        THEN JsonParseMembers(toks, member.next + 1, dict)
        ELSE [val |-> dict, next |-> member.next + 1]

JsonLoad(toks) == JsonParseValue(toks, 1).val

(***************************************************************************)
(* C20: serializing the produced network document and parsing it back      *)
(* yields a network with the same number of segments, the same number of   *)
(* connections on each segment, and roads[i].id = i for every position i   *)
(* (counted from 0).                                                       *)
(***************************************************************************)
C20_RoundTrip ==
    output # <<>> =>
        LET read   == JsonParseValue(output[1], 1)
            parsed == read.val
        IN  /\ read.next = Len(output[1]) + 1
            /\ Len(parsed.roads) = Len(roads)
            /\ \A k \in RoadIdx :
                  /\ Len(parsed.roads[k].connections) = Len(roads[k].connections)
                  /\ parsed.roads[k].id = k - 1

\* A written network with a road that has a connection and a road that has
\* none was read back.
C20_Witness ==
    /\ output # <<>>
    /\ LET parsed == JsonLoad(output[1])
       IN  /\ \E k \in 1..Len(parsed.roads) : Len(parsed.roads[k].connections) >= 1
           /\ \E k \in 1..Len(parsed.roads) : parsed.roads[k].connections = <<>>
           /\ Len(parsed.roads) >= 4

(***************************************************************************)
(* The ids of a list of roads, and the steps of build_road_network.        *)
(***************************************************************************)
IdsOf(rs) == [k \in 1..Len(rs) |-> rs[k].id]

\* No road of the list has a connection.
Unconnected(rs) == \A k \in 1..Len(rs) : rs[k].connections = <<>>

\* rs is the first Len(rs) roads of ts.
IsPrefix(rs, ts) == Len(rs) <= Len(ts) /\ \A k \in 1..Len(rs) : ts[k] = rs[k]

Body(road) == [road EXCEPT !.connections = <<>>]

C22_ConnectOnlyAppends ==
    [][ pc = "connect" =>
            /\ Len(roads') = Len(roads)
            /\ \A k \in RoadIdx :
                  /\ Body(roads'[k]) = Body(roads[k])
                  /\ IsPrefix(roads[k].connections, roads'[k].connections)
            /\ road_src' = road_src ]_vars

\* A node has been connected and left a connection, and another node is
\* still to be connected.
C22_Witness ==
    /\ pc = "connect"
    /\ node_idx > 1
    /\ node_idx <= Len(incoming_keys)
    /\ \E k \in RoadIdx : roads[k].connections # <<>>

(***************************************************************************)
(* C23: adjacency is keyed by map node id, not by coordinates: a           *)
(* connection from segment s to segment t exists only if the node id at    *)
(* which s ends equals the node id at which t starts; two segments whose   *)
(* touching end points have equal coordinates but different node ids are   *)
(* never connected.                                                        *)
(***************************************************************************)
\* Road s has a connection to road t.
Connected(s, t) == \E j \in ConnIdx(s) : roads[s].connections[j].roadId = roads[t].id

\* Road t starts at the coordinates at which road s ends.
Touching(s, t) ==
    roads[s].endLat = roads[t].startLat /\ roads[s].endLon = roads[t].startLon

C23_AdjacencyByNodeId ==
    Built =>
        \A s, t \in RoadIdx :
            road_src[s].to # road_src[t].from => ~Connected(s, t)

\* Road t starts at the twin of the node at which road s ends and leads on
\* to a third point; s and t are not connected, while s is connected to a
\* road that starts at its own end node.
C23_Witness ==
    /\ pc = "exit_0"
    /\ \E s, t \in RoadIdx :
          /\ Touching(s, t)
          /\ road_src[s].to # road_src[t].from
          /\ ~GeometricReverse(s, t)
          /\ ~Connected(s, t)
          /\ roads[s].connections # <<>>

(***************************************************************************)
(* Suppressed turns: road t starts at the node at which road s ends, and s *)
(* has no connection to t.                                                 *)
(***************************************************************************)
Suppressed(s, t) == road_src[s].to = road_src[t].from /\ ~Connected(s, t)

UnitTexts == {<<"k", "m", "/", "h">>, <<"m", "p", "h">>}

EndsWith(text, unit) ==
    /\ Len(text) >= Len(unit)
    /\ SubSeq(text, Len(text) - Len(unit) + 1, Len(text)) = unit

\* The text before the unit (a separating space is left to the integer
\* parse, which skips it).
BeforeUnit(text, unit) == SubSeq(text, 1, Len(text) - Len(unit))

C25_UnitSuffixStripped ==
    Built =>
        LET elements == WayElementsOf(osm_data[1])
        IN  \A k \in RoadIdx :
                LET tag == elements[road_src[k].way].tags.maxspeed
                IN  \A unit \in UnitTexts :
                        (/\ tag.present
                         /\ EndsWith(tag.value, unit)
                         /\ PyInt(BeforeUnit(tag.value, unit)).ok) =>
                            roads[k].maxSpeed =
                                RoundHalfEven(25 * PyInt(BeforeUnit(tag.value, unit)).val, 9)

(***************************************************************************)
(* C26: for every segment of the produced network, each connection's       *)
(* probability lies in [0, 1] and the sum of the probabilities of all its  *)
(* connections, as emitted (rounded to 6 decimals), never exceeds 1, for   *)
(* any number of outgoing segments at its end node.                        *)
(***************************************************************************)
\* The sum of the probabilities of a list of connections, in millionths.
RECURSIVE ProbabilitySum(_)
ProbabilitySum(connections) ==
    IF connections = <<>> THEN 0
    ELSE Head(connections).probability + ProbabilitySum(Tail(connections))

C26_ProbabilitySumAtMostOne ==
    Built =>
        \A s \in RoadIdx :
            /\ \A j \in ConnIdx(s) :
                  /\ 0 <= roads[s].connections[j].probability
                  /\ roads[s].connections[j].probability <= 1000000
            /\ ProbabilitySum(roads[s].connections) <= 1000000

(***************************************************************************)
(* C27: within every segment's connections list the target ids are         *)
(* pairwise distinct and appear in strictly ascending order of roadId; all *)
(* connections of one segment originate from a single node (its end node), *)
(* so the list is never extended from two different nodes.                 *)
(***************************************************************************)
C27_ConnectionsAscending ==
    /\ Built =>
          \A s \in RoadIdx :
              /\ \A i, j \in ConnIdx(s) :
                    i < j => roads[s].connections[i].roadId < roads[s].connections[j].roadId
              /\ \A j \in ConnIdx(s) :
                    road_src[roads[s].connections[j].roadId + 1].from = road_src[s].to
    \* a step of the connection loop extends only lists that were empty
    /\ pc = "connect" =>
          \A s \in RoadIdx :
              roads[s].connections # <<>> =>
                  \E i \in 1..(node_idx - 1) : incoming_keys[i] = road_src[s].to

\* A segment has three connections, in ascending order of roadId.
C27_Witness ==
    /\ pc = "exit_0"
    /\ \E s \in RoadIdx :
          /\ Len(roads[s].connections) = 3
          /\ roads[s].connections[1].roadId < roads[s].connections[2].roadId
          /\ roads[s].connections[2].roadId < roads[s].connections[3].roadId

(***************************************************************************)
(* C28: the segment list is ordered by way (in input order) and, within a  *)
(* way, by consecutive node pair; for a bidirectional way the reverse      *)
(* segment of a pair immediately follows its forward segment (forward id   *)
(* k, reverse id k+1), so segments of two different ways or pairs are      *)
(* never interleaved.                                                      *)
(***************************************************************************)
\* Road k runs in the direction of its pair.
IsForward(k) ==
    /\ road_src[k].from = PairStart(<<road_src[k].way, road_src[k].pair>>)
    /\ road_src[k].to = PairEnd(<<road_src[k].way, road_src[k].pair>>)

C28_OrderedByWayAndPair ==
    /\ \A k \in RoadIdx :
          k < Len(roads) =>
              \/ road_src[k].way < road_src[k + 1].way
              \/ /\ road_src[k].way = road_src[k + 1].way
                 /\ road_src[k].pair <= road_src[k + 1].pair
    /\ \A k \in RoadIdx :
          IF ways[road_src[k].way].oneway THEN IsForward(k)
          ELSE IF IsForward(k)
          THEN /\ k < Len(roads)
               /\ roads[k].id = k - 1 /\ roads[k + 1].id = k
               /\ road_src[k + 1].way = road_src[k].way
               /\ road_src[k + 1].pair = road_src[k].pair
               /\ ~IsForward(k + 1)
          ELSE /\ k > 1
               /\ road_src[k - 1].way = road_src[k].way
               /\ road_src[k - 1].pair = road_src[k].pair
               /\ IsForward(k - 1)

\* Two ways were built, one of them bidirectional over two pairs: its roads
\* are forward, reverse, forward, reverse.
C28_Witness ==
    /\ pc = "exit_0"
    /\ \E k, l \in RoadIdx : road_src[k].way < road_src[l].way
    /\ \E k \in RoadIdx :
          /\ k + 3 <= Len(roads)
          /\ ~ways[road_src[k].way].oneway
          /\ road_src[k + 3].way = road_src[k].way
          /\ road_src[k].pair < road_src[k + 3].pair
          /\ IsForward(k) /\ ~IsForward(k + 1) /\ IsForward(k + 2) /\ ~IsForward(k + 3)

=============================================================================
